---- MODULE Spec2Model ----
(***************************************************************************)
(* Model of drowsiness_detector.py: the frame loop's drowsiness state      *)
(* machine (COUNTER / ALARM_ON), the alarm thread trigger_continuous_alarm *)
(* with its playback fallbacks, the startup backend probe and the cleanup  *)
(* sequence.  EAR values are in hundredths (0.68 is 68).                   *)
(***************************************************************************)
EXTENDS Integers, Sequences, FiniteSets, TLC

\* ---- bounds of the model ----
MaxFrames == 4          \* frames processed in one behaviour
MaxTrigger == 2         \* NUM_CONSECUTIVE_FRAMES ranges over 1..MaxTrigger

\* ---- program constants ----
EYE_THRESHOLD == 68
NoFace == -1            \* results.multi_face_landmarks is empty
None == "None"
EarValues == {50, EYE_THRESHOLD}
FrameInputs == EarValues \cup {NoFace}
Keys == {"q", "other"}
Libraries == {"pygame", "playsound", "pydub", "winsound"}

VARIABLES
    NUM_CONSECUTIVE_FRAMES, \* configured trigger count
    COUNTER,                \* consecutive low frames
    ALARM_ON,               \* the shared alarm flag
    ALARM_THREAD,           \* index of the last thread started, 0 is None
    AUDIO_LIBRARY,          \* selected backend
    mixer,                  \* pygame mixer initialised
    threads,                \* threads[t]: position of alarm thread t
    mainpc,                 \* position of the main script
    videoOpen,              \* windows / video stream / face mesh in use
    frames,                 \* history: the frames processed so far
    stopped,                \* history: threads that were alive at an alarm stop
    shutdownLog,            \* history: cleanup steps executed, in order
    fileExists,             \* history: os.path.exists(ALARM_FILE) at the probe
    probeLog,               \* history: the libraries probed, with their result
    tried                   \* history: tried[t]: mechanisms thread t has invoked
                            \* in the current iteration of its loop

vars == <<NUM_CONSECUTIVE_FRAMES, COUNTER, ALARM_ON, ALARM_THREAD, AUDIO_LIBRARY,
          mixer, threads, mainpc, videoOpen, frames, stopped, shutdownLog,
          fileExists, probeLog, tried>>

detVars == <<COUNTER, ALARM_ON, ALARM_THREAD>>
histVars == <<frames, stopped, shutdownLog>>
probeVars == <<fileExists, probeLog>>

ThreadIds == 1..Len(threads)
Alive == {t \in ThreadIds : threads[t] # "done"}
is_alive(t) == t \in ThreadIds /\ threads[t] # "done"

\* ---- startup probe ----
ProbeEnvs ==
    [exists : BOOLEAN,
     pygame : {"ImportError", "InitError", "LoadError", "ok"},
     playsound : {"ImportError", "ok"},
     pydub : {"Error", "ok"},
     winsound : {"ImportError", "NotWindowsWav", "ok"}]

Probed(lib, result) == [lib |-> lib, ok |-> (result = "ok")]

\* The probes made once the file is known to exist.
ProbeLibraries(env) ==
    IF env.pygame = "ok"
    THEN [lib |-> "pygame", mixer |-> TRUE, log |-> <<Probed("pygame", "ok")>>]
    ELSE LET m == (env.pygame = "LoadError")
             l1 == <<Probed("pygame", env.pygame)>>
             l2 == Append(l1, Probed("playsound", env.playsound))
             l3 == Append(l2, Probed("pydub", env.pydub))
             l4 == Append(l3, Probed("winsound", env.winsound))
         IN
         IF env.playsound = "ok" THEN [lib |-> "playsound", mixer |-> m, log |-> l2]
         ELSE IF env.pydub = "ok" THEN [lib |-> "pydub", mixer |-> m, log |-> l3]
         ELSE IF env.winsound = "ok" THEN [lib |-> "winsound", mixer |-> m, log |-> l4]
         ELSE [lib |-> None, mixer |-> m, log |-> l4]

check_audio_library_noExistsCheck(env) == ProbeLibraries(env)

check_audio_library_noReturn(env) ==
    IF ~env.exists THEN [lib |-> None, mixer |-> FALSE, log |-> <<>>]
    ELSE IF env.pygame = "ok" /\ env.playsound = "ok"
    THEN [lib |-> "playsound", mixer |-> TRUE,
          log |-> <<Probed("pygame", "ok"), Probed("playsound", "ok")>>]
    ELSE ProbeLibraries(env)

check_audio_library(env) ==
    IF ~env.exists THEN [lib |-> None, mixer |-> FALSE, log |-> <<>>]
    ELSE ProbeLibraries(env)

Startup ==
    /\ mainpc = "startup"
    /\ \E env \in ProbeEnvs :
         LET r == check_audio_library(env) IN
           /\ AUDIO_LIBRARY' = r.lib
           /\ mixer' = r.mixer
           /\ fileExists' = env.exists
           /\ probeLog' = r.log
    /\ mainpc' = "loop"
    /\ UNCHANGED <<NUM_CONSECUTIVE_FRAMES, detVars, threads, videoOpen, histVars, tried>>

\* ---- frame loop ----
BelowThreshold_le(ear) == ear <= EYE_THRESHOLD

BelowThreshold(ear) == ear < EYE_THRESHOLD

NextCounter_noFaceResets(f, c) ==
    IF f # NoFace /\ BelowThreshold(f) THEN c + 1 ELSE 0

NextCounter(f, c) ==
    IF f = NoFace THEN c
    ELSE IF BelowThreshold(f) THEN c + 1
    ELSE 0

StartsAlarm_noGuard(f, c, on) ==
    /\ f # NoFace
    /\ BelowThreshold(f)
    /\ c + 1 >= NUM_CONSECUTIVE_FRAMES

StartsAlarm_late(f, c, on) ==
    /\ f # NoFace
    /\ BelowThreshold(f)
    /\ c >= NUM_CONSECUTIVE_FRAMES
    /\ ~on

StartsAlarm(f, c, on) ==
    /\ f # NoFace
    /\ BelowThreshold(f)
    /\ c + 1 >= NUM_CONSECUTIVE_FRAMES
    /\ ~on

StopsAlarm(f, on) ==
    /\ f # NoFace
    /\ ~BelowThreshold(f)
    /\ on

NextAlarm_noStop(f, c, on) ==
    IF StartsAlarm(f, c, on) THEN TRUE ELSE on

NextAlarm(f, c, on) ==
    IF StartsAlarm(f, c, on) THEN TRUE
    ELSE IF StopsAlarm(f, on) THEN FALSE
    ELSE on

FrameLoopReady_waitsForPlayback ==
    /\ mainpc = "loop"
    /\ \A t \in ThreadIds : threads[t] # "playing"

FrameLoopReady == mainpc = "loop"

ProcessFrame(f, key) ==
    /\ FrameLoopReady
    /\ frames' = Append(frames, f)
    /\ COUNTER' = NextCounter(f, COUNTER)
    /\ ALARM_ON' = NextAlarm(f, COUNTER, ALARM_ON)
    /\ IF StartsAlarm(f, COUNTER, ALARM_ON)
       THEN /\ threads' = Append(threads, "while")
            /\ tried' = Append(tried, {})
            /\ ALARM_THREAD' = Len(threads) + 1
       ELSE UNCHANGED <<threads, tried, ALARM_THREAD>>
    /\ stopped' = IF StopsAlarm(f, ALARM_ON) THEN stopped \cup Alive ELSE stopped
    /\ mainpc' = IF key = "q" THEN "cleanup" ELSE "loop"
    /\ UNCHANGED <<NUM_CONSECUTIVE_FRAMES, AUDIO_LIBRARY, mixer, videoOpen, shutdownLog,
                   probeVars>>

Frame ==
    /\ Len(frames) < MaxFrames
    /\ \E f \in FrameInputs, key \in Keys : ProcessFrame(f, key)

\* ---- cleanup ----
CleanupNext_videoFirst(pc) ==
    CASE pc = "cleanup" -> "wait"
      [] pc = "wait" -> "video"
      [] pc = "video" -> "audio"
      [] pc = "audio" -> "exit"
      [] pc = "exit" -> "exited"

CleanupNext(pc) ==
    CASE pc = "cleanup" -> "wait"
      [] pc = "wait" -> "audio"
      [] pc = "audio" -> "video"
      [] pc = "video" -> "exit"
      [] pc = "exit" -> "exited"

CleanupAlarmOff ==
    /\ mainpc = "cleanup"
    /\ ALARM_ON' = FALSE
    /\ stopped' = stopped \cup Alive
    /\ shutdownLog' = Append(shutdownLog, "alarm_off")
    /\ mainpc' = CleanupNext("cleanup")
    /\ UNCHANGED <<probeVars, tried>>
    /\ UNCHANGED <<NUM_CONSECUTIVE_FRAMES, COUNTER, ALARM_THREAD, AUDIO_LIBRARY,
                   mixer, threads, videoOpen, frames>>

CleanupWait ==
    /\ mainpc = "wait"
    /\ shutdownLog' = IF ALARM_THREAD # 0 /\ is_alive(ALARM_THREAD)
                      THEN Append(shutdownLog, "sleep")
                      ELSE shutdownLog
    /\ mainpc' = CleanupNext("wait")
    /\ UNCHANGED <<probeVars, tried>>
    /\ UNCHANGED <<NUM_CONSECUTIVE_FRAMES, detVars, AUDIO_LIBRARY, mixer, threads,
                   videoOpen, frames, stopped>>

CleanupAudio ==
    /\ mainpc = "audio"
    /\ IF AUDIO_LIBRARY = "pygame"
       THEN /\ mixer' = FALSE
            /\ shutdownLog' = Append(shutdownLog, "mixer_quit")
       ELSE UNCHANGED <<mixer, shutdownLog>>
    /\ mainpc' = CleanupNext("audio")
    /\ UNCHANGED <<probeVars, tried>>
    /\ UNCHANGED <<NUM_CONSECUTIVE_FRAMES, detVars, AUDIO_LIBRARY, threads,
                   videoOpen, frames, stopped>>

CleanupVideo ==
    /\ mainpc = "video"
    /\ videoOpen' = FALSE
    /\ shutdownLog' = Append(shutdownLog, "release_video")
    /\ mainpc' = CleanupNext("video")
    /\ UNCHANGED <<probeVars, tried>>
    /\ UNCHANGED <<NUM_CONSECUTIVE_FRAMES, detVars, AUDIO_LIBRARY, mixer, threads,
                   frames, stopped>>

\* The script ends: the daemon alarm threads die with the interpreter.
Exit ==
    /\ mainpc = "exit"
    /\ threads' = [t \in ThreadIds |-> "done"]
    /\ tried' = [t \in ThreadIds |-> {}]
    /\ UNCHANGED probeVars
    /\ shutdownLog' = Append(shutdownLog, "exit")
    /\ mainpc' = CleanupNext("exit")
    /\ UNCHANGED <<NUM_CONSECUTIVE_FRAMES, detVars, AUDIO_LIBRARY, mixer,
                   videoOpen, frames, stopped>>

\* ---- alarm thread ----
mainVars == <<NUM_CONSECUTIVE_FRAMES, COUNTER, ALARM_THREAD, AUDIO_LIBRARY, mainpc,
              videoOpen, histVars, probeVars>>

\* trigger_continuous_alarm declares `global ALARM_ON` and only reads it.
FlagAfterThreadStep_clears(on) == FALSE

FlagAfterThreadStep(on) == on

SharedState ==
    /\ ALARM_ON' = FlagAfterThreadStep(ALARM_ON)
    /\ UNCHANGED mainVars

Goto(t, pc) == threads' = [threads EXCEPT ![t] = pc]

\* The mechanisms invoked so far in the iteration; an iteration ends when the
\* thread goes to sleep or back to the loop test.
TriedAfter(cur, m, invoked, next) ==
    IF next \in {"sleep", "while", "done"} THEN {}
    ELSE IF invoked THEN cur \cup {m}
    ELSE cur

Record(t, m, invoked, next) ==
    tried' = [tried EXCEPT ![t] = TriedAfter(@, m, invoked, next)]

WhileNext(on) == IF on THEN "file" ELSE "done"

ThreadWhile(t) ==
    /\ threads[t] = "while"
    /\ Goto(t, WhileNext(ALARM_ON))
    /\ SharedState
    /\ UNCHANGED <<mixer, tried>>

PlayOutcomes(lib) ==
    IF lib = "pygame" THEN {"InitError", "LoadError", "ok"} ELSE {"Error", "ok"}

play_audio_file(lib, mx, outcome) ==
    IF lib = "pygame"
    THEN IF outcome = "InitError" /\ ~mx THEN [ret |-> FALSE, mixer |-> mx]
         ELSE IF outcome = "ok" THEN [ret |-> TRUE, mixer |-> TRUE]
         ELSE [ret |-> FALSE, mixer |-> TRUE]
    ELSE [ret |-> (outcome = "ok"), mixer |-> mx]

FileNext_raises(ret) == IF ret THEN "playing" ELSE "done"

FileNext(ret) == IF ret THEN "playing" ELSE "beep"

ThreadFile(t) ==
    /\ threads[t] = "file"
    /\ IF AUDIO_LIBRARY = None
       THEN Goto(t, "beep") /\ UNCHANGED <<mixer, tried>>
       ELSE \E outcome \in PlayOutcomes(AUDIO_LIBRARY) :
              LET r == play_audio_file(AUDIO_LIBRARY, mixer, outcome)
                  next == FileNext(r.ret)
              IN
                /\ mixer' = r.mixer
                /\ Goto(t, next)
                /\ Record(t, "file", TRUE, next)
    /\ SharedState

ThreadPlaying(t) ==
    /\ threads[t] = "playing"
    /\ Goto(t, "sleep")
    /\ Record(t, "file", FALSE, "sleep")
    /\ SharedState
    /\ UNCHANGED mixer

ThreadSleep(t) ==
    /\ threads[t] = "sleep"
    /\ Goto(t, "while")
    /\ SharedState
    /\ UNCHANGED <<mixer, tried>>

BeepNext(on, outcome) ==
    IF outcome = "ImportError" THEN "bell"
    ELSE IF ~on THEN "while"
    ELSE IF outcome = "ok" THEN "sleep" ELSE "bell"

ThreadBeep(t) ==
    /\ threads[t] = "beep"
    /\ \E outcome \in {"ImportError", "Error", "ok"} :
         /\ Goto(t, BeepNext(ALARM_ON, outcome))
         /\ Record(t, "beep", ALARM_ON /\ outcome # "ImportError", BeepNext(ALARM_ON, outcome))
    /\ SharedState
    /\ UNCHANGED mixer

BellNext_skipsCmd(on, outcome) ==
    IF ~on THEN "while"
    ELSE IF outcome = "ok" THEN "sleep" ELSE "visual"

BellNext(on, outcome) ==
    IF ~on THEN "while"
    ELSE IF outcome = "ok" THEN "sleep" ELSE "cmd"

ThreadBell(t) ==
    /\ threads[t] = "bell"
    /\ \E outcome \in {"Error", "ok"} :
         /\ Goto(t, BellNext(ALARM_ON, outcome))
         /\ Record(t, "bell", ALARM_ON, BellNext(ALARM_ON, outcome))
    /\ SharedState
    /\ UNCHANGED mixer

CmdNext(on, outcome) ==
    IF ~on THEN "while"
    ELSE IF outcome = "ok" THEN "sleep" ELSE "visual"

ThreadCmd(t) ==
    /\ threads[t] = "cmd"
    /\ \E outcome \in {"Error", "ok"} :
         /\ Goto(t, CmdNext(ALARM_ON, outcome))
         /\ Record(t, "cmd", ALARM_ON, CmdNext(ALARM_ON, outcome))
    /\ SharedState
    /\ UNCHANGED mixer

VisualNext_break(on) == IF on THEN "done" ELSE "while"

VisualNext(on) == IF on THEN "sleep" ELSE "while"

ThreadVisual(t) ==
    /\ threads[t] = "visual"
    /\ Goto(t, VisualNext(ALARM_ON))
    /\ Record(t, "visual", ALARM_ON, VisualNext(ALARM_ON))
    /\ SharedState
    /\ UNCHANGED mixer

trigger_continuous_alarm(t) ==
    \/ ThreadWhile(t)
    \/ ThreadFile(t)
    \/ ThreadPlaying(t)
    \/ ThreadSleep(t)
    \/ ThreadBeep(t)
    \/ ThreadBell(t)
    \/ ThreadCmd(t)
    \/ ThreadVisual(t)

AlarmThread == \E t \in ThreadIds : trigger_continuous_alarm(t)

\* ---- specification ----
InitCommon ==
    /\ COUNTER = 0
    /\ ALARM_ON = FALSE
    /\ ALARM_THREAD = 0
    /\ AUDIO_LIBRARY = None
    /\ mixer = FALSE
    /\ threads = <<>>
    /\ mainpc = "startup"
    /\ videoOpen = TRUE
    /\ frames = <<>>
    /\ stopped = {}
    /\ shutdownLog = <<>>
    /\ fileExists = FALSE
    /\ probeLog = <<>>
    /\ tried = <<>>

Init ==
    /\ NUM_CONSECUTIVE_FRAMES \in 1..MaxTrigger
    /\ InitCommon

Next ==
    \/ Startup
    \/ Frame
    \/ CleanupAlarmOff
    \/ CleanupWait
    \/ CleanupAudio
    \/ CleanupVideo
    \/ Exit
    \/ AlarmThread

Spec == Init /\ [][Next]_vars

\* ---- the end-to-end scenario: threshold 0.68, N = 5 ----
ScenarioEARs == <<70, 50, 50, 50, 50, 50, 70>>
ScenarioCounters == <<0, 1, 2, 3, 4, 5, 0>>
ScenarioAlarm == <<FALSE, FALSE, FALSE, FALSE, FALSE, TRUE, FALSE>>

ScenarioInit ==
    /\ NUM_CONSECUTIVE_FRAMES = Len(ScenarioEARs) - 2
    /\ InitCommon

ScenarioFrame ==
    /\ Len(frames) < Len(ScenarioEARs)
    /\ \E key \in Keys : ProcessFrame(ScenarioEARs[Len(frames) + 1], key)

ScenarioNext ==
    \/ Startup
    \/ ScenarioFrame
    \/ CleanupAlarmOff
    \/ CleanupWait
    \/ CleanupAudio
    \/ CleanupVideo
    \/ Exit
    \/ AlarmThread

ScenarioSpec == ScenarioInit /\ [][ScenarioNext]_vars

\* ---- helpers of the properties ----
InLoop == mainpc \in {"loop", "cleanup"}
FrameStep == Len(frames') = Len(frames) + 1
LastFrame == frames[Len(frames)]
NewFrame == frames'[Len(frames')]
FacesOnly(s) == SelectSeq(s, LAMBDA f : f # NoFace)

RECURSIVE LowSuffixLen(_)
LowSuffixLen(s) ==
    IF s = <<>> THEN 0
    ELSE IF s[Len(s)] >= EYE_THRESHOLD THEN 0
    ELSE 1 + LowSuffixLen(SubSeq(s, 1, Len(s) - 1))

\* C1: at most one alarm thread is alive at any time, also after a stop
\* followed by a new run of N low frames.
C1_AtMostOneAlarmTask == Cardinality(Alive) <= 1

\* C2: the counter equals the length of the longest run of below-threshold
\* frames ending at the last processed frame, no-face frames removed; a frame
\* with EAR >= threshold leaves the counter at 0 whatever the alarm state.
C2_CounterIsLowRun ==
    /\ COUNTER = LowSuffixLen(FacesOnly(frames))
    /\ (frames # <<>> /\ LastFrame # NoFace /\ LastFrame >= EYE_THRESHOLD) => COUNTER = 0

C2_Witness ==
    /\ COUNTER = 2
    /\ Len(frames) >= 4
    /\ LastFrame < EYE_THRESHOLD /\ LastFrame # NoFace
    /\ frames[Len(frames) - 1] = NoFace
    /\ frames[Len(frames) - 2] < EYE_THRESHOLD /\ frames[Len(frames) - 2] # NoFace
    /\ frames[Len(frames) - 3] = EYE_THRESHOLD

\* C3: the alarm flag goes from inactive to active, and an alarm thread is
\* started, exactly on the frame on which the counter reaches N: not while the
\* counter is below N and not again on a later frame of the same run.
C3_AlarmStartsExactlyAtN ==
    [][ /\ (~ALARM_ON /\ ALARM_ON') =>
              /\ FrameStep
              /\ COUNTER = NUM_CONSECUTIVE_FRAMES - 1
              /\ COUNTER' = NUM_CONSECUTIVE_FRAMES
              /\ Len(threads') = Len(threads) + 1
              /\ ALARM_THREAD' = Len(threads')
              /\ threads'[ALARM_THREAD'] = "while"
        /\ (Len(threads') # Len(threads)) =>
              /\ ~ALARM_ON /\ ALARM_ON'
              /\ COUNTER' = NUM_CONSECUTIVE_FRAMES
        /\ (COUNTER' # COUNTER /\ COUNTER' = NUM_CONSECUTIVE_FRAMES) =>
              /\ ~ALARM_ON /\ ALARM_ON'
      ]_vars

C3_Witness ==
    /\ mainpc = "loop"
    /\ ALARM_ON
    /\ COUNTER > NUM_CONSECUTIVE_FRAMES
    /\ Len(threads) = 1

\* C4: after every processed frame and before shutdown, the alarm flag is
\* true iff the counter is at least N, for every N >= 1.
C4_AlarmIffCounterAtLeastN ==
    (mainpc \in {"startup", "loop", "cleanup"}) =>
        (ALARM_ON <=> COUNTER >= NUM_CONSECUTIVE_FRAMES)

C4_Witness ==
    /\ mainpc = "loop"
    /\ NUM_CONSECUTIVE_FRAMES > 1
    /\ ALARM_ON
    /\ COUNTER >= NUM_CONSECUTIVE_FRAMES
    /\ frames[1] = EYE_THRESHOLD
    /\ is_alive(ALARM_THREAD)

\* C5: a no-face frame leaves the counter, the alarm flag and the set of
\* alive alarm threads unchanged.
C5_NoFaceIsNoOp ==
    [][ (FrameStep /\ NewFrame = NoFace) =>
            /\ COUNTER' = COUNTER
            /\ ALARM_ON' = ALARM_ON
            /\ ALARM_THREAD' = ALARM_THREAD
            /\ threads' = threads
      ]_vars

C5_Witness ==
    /\ frames # <<>>
    /\ LastFrame = NoFace
    /\ ALARM_ON
    /\ COUNTER >= NUM_CONSECUTIVE_FRAMES
    /\ Alive # {}

\* C6: a below-threshold frame processed while the alarm is active starts no
\* further thread and leaves the flag true, so that exactly one alarm thread
\* is alive after it.
C6_StartIsIdempotent ==
    [][ (FrameStep /\ NewFrame # NoFace /\ NewFrame < EYE_THRESHOLD /\ ALARM_ON) =>
            /\ ALARM_ON'
            /\ threads' = threads
            /\ Cardinality(Alive') = 1
      ]_vars

\* C7: a thread that was alive when the alarm was stopped sees the cleared
\* flag at its next test of the loop condition and exits.
C7_StoppedTaskExitsAtNextPoll ==
    [][ \A t \in ThreadIds :
            (t \in stopped /\ threads[t] = "while" /\ threads'[t] # "while") =>
                threads'[t] = "done"
      ]_vars

\* C8: no duration cap: before shutdown an active alarm flag always has its
\* alarm thread alive, and a thread leaves its loop only after the alarm was
\* stopped at some moment of the thread's life.
C8_NoDurationCap ==
    /\ [](InLoop /\ ALARM_ON => is_alive(ALARM_THREAD))
    /\ [][ \A t \in ThreadIds :
              (threads[t] # "done" /\ threads'[t] = "done") => t \in stopped
         ]_vars

C8_Witness ==
    /\ InLoop
    /\ ALARM_ON
    /\ is_alive(ALARM_THREAD)
    /\ threads[ALARM_THREAD] = "visual"
    /\ ALARM_THREAD \notin stopped
    /\ COUNTER > NUM_CONSECUTIVE_FRAMES

\* C9: shutdown clears the alarm flag first, then waits, then releases the
\* audio resource, then the video/detector resources, then exits; the flag is
\* never true again once it was cleared by the shutdown.
ShutdownOrder == <<"alarm_off", "sleep", "mixer_quit", "release_video", "exit">>
PositionIn(order, x) == CHOOSE i \in 1..Len(order) : order[i] = x
InLog(x) == \E i \in 1..Len(shutdownLog) : shutdownLog[i] = x

C10_Scenario ==
    (InLoop /\ frames # <<>> /\ NUM_CONSECUTIVE_FRAMES = 5 /\ EYE_THRESHOLD = 68
       /\ frames = SubSeq(ScenarioEARs, 1, Len(frames))) =>
        /\ COUNTER = ScenarioCounters[Len(frames)]
        /\ ALARM_ON = ScenarioAlarm[Len(frames)]

C10_Witness ==
    /\ mainpc = "loop"
    /\ NUM_CONSECUTIVE_FRAMES = 5
    /\ frames = ScenarioEARs
    /\ COUNTER = 0
    /\ ~ALARM_ON
    /\ Len(threads) = 1

\* ---- helpers of the alarm thread properties ----
MechanismOrder == <<"file", "beep", "bell", "cmd", "visual">>
Mechanisms == {MechanismOrder[i] : i \in 1..Len(MechanismOrder)}
Rank(m) == CHOOSE i \in 1..Len(MechanismOrder) : MechanismOrder[i] = m
ProbeOrder == <<"pygame", "playsound", "pydub", "winsound">>
MainStep == mainpc' # mainpc \/ FrameStep
ThreadMoved(t) == threads'[t] # threads[t] /\ ~MainStep

\* C11: when the alarm file does not exist the probe selects no backend and
\* no alarm thread ever invokes the file playback: only fallbacks are used.
C11_MissingFileNoFilePlayback ==
    (mainpc # "startup" /\ ~fileExists) =>
        /\ AUDIO_LIBRARY = None
        /\ \A t \in ThreadIds : "file" \notin tried[t] /\ threads[t] # "playing"

C11_Witness ==
    /\ mainpc = "loop"
    /\ ~fileExists
    /\ ALARM_ON
    /\ Len(threads) = 2
    /\ threads[1] = "done"
    /\ threads[2] = "cmd"
    /\ tried[2] = {"beep", "bell"}

\* C12: the mixer is released only after the alarm threads have exited and
\* stays released: never released with a thread alive, never acquired again.
C12_MixerReleasedAfterTaskExit ==
    InLog("mixer_quit") => (Alive = {} /\ ~mixer)

\* C13: in every iteration the mechanisms are tried in the order selected
\* backend, beep, terminal bell, shell command, visual alert; one is tried
\* only after the backend and every higher one failed or was unavailable in
\* that iteration, and a success ends the iteration.
C13_StrictFallbackOrder ==
    /\ [](\A t \in ThreadIds :
            /\ tried[t] \subseteq Mechanisms
            /\ threads[t] \in {"while", "sleep", "done"} => tried[t] = {}
            /\ threads[t] = "playing" => (tried[t] = {"file"} /\ AUDIO_LIBRARY # None)
            /\ threads[t] \in Mechanisms =>
                  /\ \A m \in tried[t] : Rank(m) < Rank(threads[t])
                  /\ (AUDIO_LIBRARY # None /\ threads[t] # "file") => "file" \in tried[t]
                  /\ (AUDIO_LIBRARY = None) => "file" \notin tried[t]
                  /\ Rank(threads[t]) > Rank("bell") => "bell" \in tried[t]
                  /\ Rank(threads[t]) > Rank("cmd") => "cmd" \in tried[t])
    /\ [][ \A t \in ThreadIds : ThreadMoved(t) =>
              /\ threads'[t] = "file" => threads[t] = "while"
              /\ (threads'[t] \in Mechanisms /\ threads'[t] # "file") =>
                    (threads[t] \in Mechanisms /\ Rank(threads'[t]) = Rank(threads[t]) + 1)
              /\ threads'[t] = "playing" => threads[t] = "file"
              /\ threads[t] = "playing" => threads'[t] = "sleep"
              /\ threads[t] = "sleep" => threads'[t] = "while"
              /\ tried'[t] \subseteq tried[t] \cup {threads[t]}
       ]_vars

C13_Witness ==
    /\ ALARM_ON
    /\ AUDIO_LIBRARY # None
    /\ \E t \in ThreadIds :
          /\ threads[t] = "visual"
          /\ tried[t] = {"file", "beep", "bell", "cmd"}

\* C14: a failing playback mechanism never ends the alarm thread nor touches
\* the frame loop: the thread goes on to the next fallback of the same
\* session, and the counter, the flag and the main script are left alone.
C14_ErrorsBecomeFallbackSteps ==
    [][ \A t \in ThreadIds :
          (threads[t] \in Mechanisms /\ ThreadMoved(t)) =>
              /\ threads'[t] # "done"
              /\ (threads[t] \in tried'[t] /\ threads'[t] # "playing") =>
                    /\ threads'[t] \in Mechanisms
                    /\ Rank(threads'[t]) = Rank(threads[t]) + 1
              /\ COUNTER' = COUNTER
              /\ ALARM_ON' = ALARM_ON
              /\ ALARM_THREAD' = ALARM_THREAD
              /\ Len(threads') = Len(threads)
      ]_vars

C14_Witness ==
    /\ mainpc = "loop"
    /\ ALARM_ON
    /\ COUNTER > NUM_CONSECUTIVE_FRAMES
    /\ AUDIO_LIBRARY = "pygame"
    /\ threads[ALARM_THREAD] = "visual"
    /\ tried[ALARM_THREAD] = {"file", "beep", "bell", "cmd"}

\* C15: every audio resource acquired by the probe or by playback has been
\* released when the shutdown ends, whatever backend was selected.
C15_AudioReleasedAtExit == (mainpc = "exited") => ~mixer

C17_FrameLoopNeverBlocks ==
    /\ [](mainpc = "loop" /\ Len(frames) < MaxFrames => ENABLED Frame)
    /\ [][ (\E t \in ThreadIds :
               \/ ~(tried'[t] \subseteq tried[t])
               \/ (threads'[t] \in {"playing", "sleep"} /\ threads[t] # threads'[t]))
            => (mainpc' = mainpc /\ frames' = frames /\ shutdownLog' = shutdownLog)
       ]_vars

C17_Witness ==
    /\ mainpc = "loop"
    /\ Len(frames) < MaxFrames
    /\ ALARM_ON
    /\ COUNTER > NUM_CONSECUTIVE_FRAMES
    /\ threads[ALARM_THREAD] = "playing"

\* C18: no step of an alarm thread changes the alarm flag, the counter or the
\* selected backend; the flag is written by frame processing and shutdown only.
C18_ThreadOnlyReads ==
    [][ (ALARM_ON' # ALARM_ON \/ COUNTER' # COUNTER \/ AUDIO_LIBRARY' # AUDIO_LIBRARY) =>
            /\ MainStep
            /\ mainpc \in {"startup", "loop", "cleanup"}
            /\ \A t \in ThreadIds : threads'[t] = threads[t] /\ tried'[t] = tried[t]
      ]_vars

C18_Witness ==
    /\ mainpc = "loop"
    /\ ALARM_ON
    /\ AUDIO_LIBRARY # None
    /\ threads[ALARM_THREAD] = "sleep"
    /\ stopped = {}

====
